---- MODULE Spec2Model ----
(***************************************************************************)
(* ComfyUI-Bagel: the node classes of nodes.py as a state machine.         *)
(*                                                                         *)
(* The host runs one node function at a time.  load_model is modelled      *)
(* statement group by statement group (any library call may raise); the    *)
(* two capture nodes are single steps; the five dispatch nodes share one    *)
(* statement sequence (construct, reseed, assemble, invoke, return) and    *)
(* differ in their signature, hyperparameter dictionary, inferencer call   *)
(* and returned tuple.  Floats are kept in tenths (0.4 is 4, 1.0 is 10).   *)
(***************************************************************************)
EXTENDS Integers, Sequences, FiniteSets, TLC

\* ------------------------------------------------------------------ bounds
MaxDevices == 2
MaxSeed == 2
MaxDraws == 2
MaxCalls == 2
NumThreads == 2

None == "None"
Unset == "<unset>"

\* ---------------------------------------------------------- model loader
\* Variant of same_device_modules with the last name left out.
same_device_modules_short ==
    << "language_model.model.embed_tokens",
       "time_embedder",
       "latent_pos_embed",
       "vae2llm",
       "llm2vae",
       "connector" >>

\* nodes.py:102-110
same_device_modules ==
    << "language_model.model.embed_tokens",
       "time_embedder",
       "latent_pos_embed",
       "vae2llm",
       "llm2vae",
       "connector",
       "vit_pos_embed" >>

SameDeviceSet == { same_device_modules[i] : i \in 1..Len(same_device_modules) }

\* Device identifiers infer_auto_device_map can emit with n visible devices:
\* the keys of max_memory (nodes.py:97) and the two offload targets.
\* An integer index i is written as the string DeviceIndex[i + 1], so that it
\* stays distinct from "cuda:0" as 0 != "cuda:0" in the source language.
DeviceIndex == << "0", "1", "2", "3" >>

PlannerDevices(n) == { DeviceIndex[i + 1] : i \in 0..(n - 1) } \cup {"cpu", "disk"}

\* A placement plan restricted to the co-location names: a name is either a
\* key of the plan (with its device) or not a key (covered by a parent or
\* not at all).  A plan is a function from the names that are keys.
Plans(n) ==
    UNION { [ks -> PlannerDevices(n)] : ks \in SUBSET SameDeviceSet }

\* dict.get(key, default)
DictGet(d, k, default) == IF k \in DOMAIN d THEN d[k] ELSE default

\* nodes.py:112-123, the loop over same_device_modules in either branch.
\* Assignments inside the loop never change same_device_modules[0]'s
\* pre-computed first_device, so the loop is a pointwise update.
PostPassSingle(device_map) ==
    LET first_device == DictGet(device_map, same_device_modules[1], "cuda:0")
    IN  [k \in (DOMAIN device_map) \cup SameDeviceSet |->
            IF k \in SameDeviceSet
            THEN IF k \in DOMAIN device_map THEN first_device ELSE "cuda:0"
            ELSE device_map[k]]

PostPassMulti(device_map) ==
    LET first_device == DictGet(device_map, same_device_modules[1], None)
    IN  [k \in DOMAIN device_map |->
            IF k \in SameDeviceSet THEN first_device ELSE device_map[k]]

PostPass(device_map, device_count) ==
    IF device_count = 1 THEN PostPassSingle(device_map)
    ELSE PostPassMulti(device_map)

\* The statement groups of load_model in source order; each is one library
\* call (or a group of them) that can raise.
LoadSteps ==
    << "llm_config", "vit_config", "load_ae", "build_model", "tokenizer",
       "transforms", "infer_device_map", "post_pass", "load_checkpoint",
       "eval", "return" >>

NoMap == << >>

\* The locals of load_model before its first statement.
LoaderIdle ==
    [ pc |-> 0, status |-> "idle",
      llm_config |-> Unset, vit_config |-> Unset, vae_model |-> Unset,
      model |-> Unset, tokenizer |-> Unset, new_token_ids |-> Unset,
      vae_transform |-> Unset, vit_transform |-> Unset,
      printed |-> NoMap, device_map |-> NoMap ]

NoBundle == << >>

\* What load_model returns when every statement completed (nodes.py:138).
LoadedBundle ==
    << "Bagel:eval", "AutoEncoder", "Qwen2Tokenizer+special",
       "ImageTransform(1024,512,16)", "ImageTransform(980,224,14)",
       "new_token_ids" >>

\* ------------------------------------------------------- node interfaces
CaptureNodes == { "BagelPrompt", "LoadEditImage" }

DispatchNodes ==
    { "ImageGeneration", "ImageThinkGeneration", "ImageEditing",
      "ImageThinkEditing", "ImageUnderstanding" }

Nodes == { "LoadBAGELModel" } \cup CaptureNodes \cup DispatchNodes

\* RETURN_NAMES of the loader (nodes.py:46), the handle inputs of every
\* dispatch node, in tuple order.
HandleNames ==
    << "model", "vae_model", "tokenizer", "vae_transform", "vit_transform",
       "new_token_ids" >>

HandleSet == { HandleNames[i] : i \in 1..Len(HandleNames) }

SamplingNames ==
    { "cfg_text_scale", "cfg_img_scale", "timestep_shift", "num_timesteps",
      "cfg_renorm_min" }

\* The keys of INPUT_TYPES()["required"] of each node class.
Required(node) ==
    CASE node = "LoadBAGELModel" -> { "model_path" }
      [] node = "BagelPrompt" -> { "text" }
      [] node = "LoadEditImage" -> { "image_path" }
      [] node = "ImageGeneration" ->
            HandleSet \cup SamplingNames \cup
            { "prompt", "seed", "image_ratio", "cfg_interval",
              "cfg_renorm_type", "text_temperature" }
      [] node = "ImageThinkGeneration" ->
            HandleSet \cup SamplingNames \cup
            { "prompt", "max_think_token_n", "seed", "image_ratio",
              "cfg_interval", "cfg_renorm_type", "text_temperature" }
      [] node = "ImageEditing" ->
            HandleSet \cup SamplingNames \cup
            { "prompt", "image", "seed", "image_ratio", "cfg_interval",
              "cfg_renorm_type", "text_temperature" }
      [] node = "ImageThinkEditing" ->
            HandleSet \cup SamplingNames \cup
            { "prompt", "image", "max_think_token_n", "seed", "image_ratio",
              "cfg_interval", "cfg_renorm_type", "text_temperature" }
      [] node = "ImageUnderstanding" ->
            HandleSet \cup { "prompt", "image", "seed", "max_think_token_n" }

\* The parameters (after self) of the method each class names in FUNCTION.
Params(node) ==
    CASE node = "LoadBAGELModel" -> { "model_path" }
      [] node = "BagelPrompt" -> { "text" }
      [] node = "LoadEditImage" -> { "image_path" }
      [] node = "ImageGeneration" ->
            HandleSet \cup SamplingNames \cup
            { "prompt", "image_ratio", "seed", "cfg_interval",
              "cfg_renorm_type", "text_temperature" }
      [] node = "ImageThinkGeneration" ->
            HandleSet \cup SamplingNames \cup
            { "prompt", "seed", "max_think_token_n", "cfg_interval",
              "cfg_renorm_type", "text_temperature" }
      [] node = "ImageEditing" ->
            HandleSet \cup SamplingNames \cup { "prompt", "image", "seed" }
      [] node = "ImageThinkEditing" ->
            HandleSet \cup SamplingNames \cup
            { "prompt", "image", "seed", "max_think_token_n" }
      [] node = "ImageUnderstanding" ->
            HandleSet \cup { "prompt", "image", "seed", "max_think_token_n" }

\* RETURN_TYPES of each node class.
RETURN_TYPES(node) ==
    CASE node = "LoadBAGELModel" ->
            << "MODEL", "VAEMODEL", "TOKENIZER", "VAETRANSFORM",
               "VITTRANSFORM", "TOKENIDS" >>
      [] node = "BagelPrompt" -> << "PROMPT" >>
      [] node = "LoadEditImage" -> << "IMAGE" >>
      [] node = "ImageGeneration" -> << "IMAGE" >>
      [] node = "ImageThinkGeneration" -> << "IMAGE", "TEXT" >>
      [] node = "ImageEditing" -> << "IMAGE" >>
      [] node = "ImageThinkEditing" -> << "IMAGE", "TEXT" >>
      [] node = "ImageUnderstanding" -> << "TEXT" >>

\* Calling a method with keyword arguments: none of the methods has a
\* default value, *args or **kwargs, so the call binds exactly when the
\* keywords are the parameters; otherwise the call raises TypeError before
\* the first statement of the body.
Accepts(node, keys) == keys = Params(node)

\* --------------------------------------------------------- input domains
\* seed: INT, min 0, max 1000000 (nodes.py:194-202); bounded here.
Seeds == 0..MaxSeed

\* The empty string, the default prompt and a path with special characters.
Strings == { "", "a car made of small cars", "test images/wo'men #1 (x).jpg" }

ThinkTokenInputs == { 500, 1000 }
CfgIntervalInputs == { 4, 7 }
RenormTypes == { "global", "local", "text_channel" }
TemperatureInputs == { 0, 3 }
ImageRatios == { "1:1" }

\* Two settings of the five pass-through sampling inputs: the schema
\* defaults and the schema maxima / minimum.
SamplingInputs ==
    { [ cfg_text_scale |-> 40, cfg_img_scale |-> 20, timestep_shift |-> 30,
        num_timesteps |-> 50, cfg_renorm_min |-> 10 ],
      [ cfg_text_scale |-> 80, cfg_img_scale |-> 40, timestep_shift |-> 50,
        num_timesteps |-> 100, cfg_renorm_min |-> 0 ] }

HandleOf(b, n) == b[CHOOSE i \in 1..Len(HandleNames) : HandleNames[i] = n]

\* The keyword arguments of one call: the handles come from the loader's
\* tuple, the rest from the graph's widgets and capture nodes.
MkKw(keys, b, prompt, image, seed, mtt, ci, rt, tt, ratio, samp) ==
    [ n \in keys |->
        CASE n \in HandleSet -> HandleOf(b, n)
          [] n \in SamplingNames -> samp[n]
          [] n = "prompt" -> prompt
          [] n = "image" -> image
          [] n = "seed" -> seed
          [] n = "max_think_token_n" -> mtt
          [] n = "cfg_interval" -> ci
          [] n = "cfg_renorm_type" -> rt
          [] n = "text_temperature" -> tt
          [] n = "image_ratio" -> ratio ]

\* ------------------------------------------------------ capture nodes
\* Variant of input_text that substitutes the widget default for "".
input_text_default_on_empty(text) ==
    LET prompt == IF text = "" THEN "a car made of small cars" ELSE text
    IN << prompt >>

\* nodes.py:158-160
input_text(text) ==
    LET prompt == text IN << prompt >>

\* nodes.py:177-179
input_image(image_path) ==
    LET image == image_path IN << image >>

\* ------------------------------------------------------ dispatch nodes
\* One generator: the seed it was last given and the draws taken since.
Unseeded == [ seed |-> -1, draws |-> 0 ]
Seeded(seed) == [ seed |-> seed, draws |-> 0 ]

\* Variant of Reseed that reads seed 0 as "do not reseed" (the tooltip).
ReseedUnlessZero(g, seed, n) ==
    IF seed = 0 THEN g
    ELSE [ random |-> Seeded(seed),
           numpy |-> Seeded(seed),
           torch |-> Seeded(seed),
           cuda |-> IF n > 0
                    THEN [ d \in 0..(n - 1) |-> Seeded(seed) ]
                    ELSE g.cuda ]

\* nodes.py:302-307 (the same seven lines in every dispatch method).
\* torch.cuda.is_available() is device_count() > 0; manual_seed seeds the
\* current device (0), manual_seed_all every device.
Reseed(g, seed, n) ==
    [ random |-> Seeded(seed),
      numpy |-> Seeded(seed),
      torch |-> Seeded(seed),
      cuda |-> IF n > 0
               THEN [ d \in 0..(n - 1) |-> Seeded(seed) ]
               ELSE g.cuda ]

\* nodes.py:308-309
SetDeterminism(c) == [ c EXCEPT !.deterministic = TRUE, !.benchmark = FALSE ]

\* Variant of InterleaveInferencer with the two transforms crossed over.
InterleaveInferencerCrossed(kw) ==
    [ n \in HandleSet |->
        IF n = "vae_transform" THEN kw["vit_transform"]
        ELSE IF n = "vit_transform" THEN kw["vae_transform"]
        ELSE kw[n] ]

\* nodes.py:293-300: InterleaveInferencer(model=model, ...), the keyword
\* arguments the constructor receives.
InterleaveInferencer(kw) == [ n \in HandleSet |-> kw[n] ]

Passthrough(kw) == [ n \in SamplingNames |-> kw[n] ]

\* Variant of generate_hyper that threads the cfg_interval input through.
generate_hyper_user_interval(kw) ==
    Passthrough(kw) @@
    [ cfg_interval |-> << kw["cfg_interval"], 10 >>,
      cfg_renorm_type |-> kw["cfg_renorm_type"] ]

\* inference_hyper=dict(...) of ImageGeneration.generate (nodes.py:311-319).
generate_hyper(kw) ==
    Passthrough(kw) @@
    [ cfg_interval |-> << 4, 10 >>,
      cfg_renorm_type |-> kw["cfg_renorm_type"] ]

\* Variant of think_generate_hyper with the commented-out text_temperature
\* entry enabled and fed from the input.
think_generate_hyper_with_temperature(kw) ==
    Passthrough(kw) @@
    [ max_think_token_n |-> kw["max_think_token_n"],
      do_sample |-> FALSE,
      text_temperature |-> kw["text_temperature"],
      cfg_interval |-> << 4, 10 >>,
      cfg_renorm_type |-> "global" ]

\* ImageThinkGeneration.generate (nodes.py:457-468)
think_generate_hyper(kw) ==
    Passthrough(kw) @@
    [ max_think_token_n |-> kw["max_think_token_n"],
      do_sample |-> FALSE,
      cfg_interval |-> << 4, 10 >>,
      cfg_renorm_type |-> "global" ]

\* ImageEditing.editing (nodes.py:606-614)
editing_hyper(kw) ==
    Passthrough(kw) @@
    [ cfg_interval |-> << 0, 10 >>,
      cfg_renorm_type |-> "text_channel" ]

\* ImageThinkEditing.editing (nodes.py:752-763)
think_editing_hyper(kw) ==
    Passthrough(kw) @@
    [ max_think_token_n |-> kw["max_think_token_n"],
      do_sample |-> FALSE,
      cfg_interval |-> << 0, 10 >>,
      cfg_renorm_type |-> "text_channel" ]

\* ImageUnderstanding.understanding (nodes.py:816-820)
understanding_hyper(kw) ==
    [ max_think_token_n |-> 1000,
      do_sample |-> FALSE ]

inference_hyper(node, kw) ==
    CASE node = "ImageGeneration" -> generate_hyper(kw)
      [] node = "ImageThinkGeneration" -> think_generate_hyper(kw)
      [] node = "ImageEditing" -> editing_hyper(kw)
      [] node = "ImageThinkEditing" -> think_editing_hyper(kw)
      [] node = "ImageUnderstanding" -> understanding_hyper(kw)

\* The non-hyperparameter keyword arguments of inferencer(...).
\* nodes.py:321
generate_mode(kw) == [ text |-> kw["prompt"] ]

\* nodes.py:470
think_generate_mode(kw) == [ text |-> kw["prompt"], think |-> TRUE ]

\* Variant of editing_mode that passes think=True as Think-Editing does.
editing_mode_think(kw) ==
    [ image |-> kw["image"], text |-> kw["prompt"], think |-> TRUE ]

\* nodes.py:616
editing_mode(kw) == [ image |-> kw["image"], text |-> kw["prompt"] ]

\* nodes.py:765
think_editing_mode(kw) ==
    [ image |-> kw["image"], text |-> kw["prompt"], think |-> TRUE ]

\* nodes.py:822
understanding_mode(kw) ==
    [ image |-> kw["image"], text |-> kw["prompt"],
      understanding_output |-> TRUE ]

ModeArgs(node, kw) ==
    CASE node = "ImageGeneration" -> generate_mode(kw)
      [] node = "ImageThinkGeneration" -> think_generate_mode(kw)
      [] node = "ImageEditing" -> editing_mode(kw)
      [] node = "ImageThinkEditing" -> think_editing_mode(kw)
      [] node = "ImageUnderstanding" -> understanding_mode(kw)

\* The fields each method reads from output_dict and the tuple it returns.
Extract(node, output_dict) ==
    CASE node = "ImageGeneration" -> << output_dict["image"] >>       \* 322-324
      [] node = "ImageThinkGeneration" ->
            << output_dict["image"], output_dict["text"] >>           \* 471-474
      [] node = "ImageEditing" -> << output_dict["image"] >>          \* 617-619
      [] node = "ImageThinkEditing" ->
            << output_dict["image"], output_dict["text"] >>           \* 766-769
      [] node = "ImageUnderstanding" -> << output_dict["text"] >>     \* 823-825

\* Variant of DispatchSteps: the inferencer is invoked a second time.
DispatchStepsInvokeTwice ==
    << "construct", "reseed", "assemble", "invoke", "invoke", "return" >>

\* Variant of DispatchSteps: the generators are reseeded after the invocation.
DispatchStepsReseedLate ==
    << "construct", "assemble", "invoke", "reseed", "return" >>

\* Variant of DispatchSteps: reseed, assemble, construct, invoke.
DispatchStepsReseedFirst ==
    << "reseed", "assemble", "construct", "invoke", "return" >>

\* The statements of a dispatch method in source order.
DispatchSteps == << "construct", "reseed", "assemble", "invoke", "return" >>

\* InterleaveInferencer.__call__ (inferencer.py, not among the sources):
\* takes text, optional image, optional think / understanding_output and
\* the hyperparameters, returns a mapping with the keys image and text.
Flag(call, k) == IF k \in DOMAIN call THEN call[k] ELSE FALSE

InferencerResult(call) ==
    [ image |-> IF Flag(call, "understanding_output") THEN None ELSE "PIL.Image",
      text |-> IF Flag(call, "think") \/ Flag(call, "understanding_output")
               THEN "generated text" ELSE None ]

\* Sampling inside the inferencer draws from the process-wide generators.
Draw(g1) == [ g1 EXCEPT !.draws = IF @ < MaxDraws THEN @ + 1 ELSE @ ]

InferencerDraws(g) ==
    [ random |-> Draw(g.random),
      numpy |-> Draw(g.numpy),
      torch |-> Draw(g.torch),
      cuda |-> [ d \in DOMAIN g.cuda |-> Draw(g.cuda[d]) ] ]

NoDict == << >>

FrameIdle ==
    [ status |-> "idle", node |-> None, pc |-> 0, kw |-> NoDict,
      inferencer |-> NoDict, inference_hyper |-> NoDict, call |-> NoDict,
      output_dict |-> NoDict, ret |-> << >>, trace |-> << >>,
      gen_at_entry |-> NoDict, overlapped |-> FALSE ]

Threads == 1..NumThreads

VARIABLES
    deviceCount,    \* torch.cuda.device_count(), fixed for the process
    cudnn,          \* torch.backends.cudnn flags
    gen,            \* process-wide generator state
    ld,             \* the frame of a running load_model call
    bundle,         \* the tuple load_model returned, NoBundle before
    th,             \* one frame per host call slot (capture / dispatch)
    count           \* history: dispatch calls entered, inferencer objects
                    \* constructed, inferencer invocations, calls returned

vars == << deviceCount, cudnn, gen, ld, bundle, th, count >>

NoCalls == [ entered |-> 0, constructed |-> 0, invocations |-> 0, returned |-> 0 ]

\* Variant of LoadOutcome in which a failing statement is swallowed and the
\* next statement runs.
LoadOutcomeSwallow(frame, ok, assigned) ==
    IF ok THEN [ assigned EXCEPT !.pc = frame.pc + 1 ]
    ELSE [ frame EXCEPT !.pc = frame.pc + 1 ]

\* A statement of load_model either completes (the frame advances with the
\* locals it assigned) or raises: nothing in load_model catches, so the
\* exception leaves the function and the frame's locals are dropped.
LoadOutcome(frame, ok, assigned) ==
    IF ok THEN [ assigned EXCEPT !.pc = frame.pc + 1 ]
    ELSE [ LoaderIdle EXCEPT !.status = "raised", !.pc = frame.pc ]

LoaderAt(step) ==
    /\ ld.status = "running"
    /\ ld.pc \in 1..Len(LoadSteps)
    /\ LoadSteps[ld.pc] = step

HostIdle ==
    /\ ld.status = "idle"
    /\ \A t \in DOMAIN th : th[t].status = "idle"

\* The host calls LoadBAGELModel.load_model(model_path); the loader runs once
\* per session, its outputs are kept by the host.
LoadCall ==
    /\ HostIdle
    /\ bundle = NoBundle
    /\ ld' = IF Accepts("LoadBAGELModel", Required("LoadBAGELModel"))
             THEN [ LoaderIdle EXCEPT !.status = "running", !.pc = 1 ]
             ELSE [ LoaderIdle EXCEPT !.status = "raised" ]
    /\ UNCHANGED << deviceCount, cudnn, gen, bundle, th, count >>

\* nodes.py:53-56
LoadLlmConfig ==
    /\ LoaderAt("llm_config")
    /\ \E ok \in BOOLEAN :
         ld' = LoadOutcome(ld, ok, [ ld EXCEPT !.llm_config = "Qwen2Config" ])
    /\ UNCHANGED << deviceCount, cudnn, gen, bundle, th, count >>

\* nodes.py:59-61
LoadVitConfig ==
    /\ LoaderAt("vit_config")
    /\ \E ok \in BOOLEAN :
         ld' = LoadOutcome(ld, ok, [ ld EXCEPT !.vit_config = "SiglipVisionConfig" ])
    /\ UNCHANGED << deviceCount, cudnn, gen, bundle, th, count >>

\* nodes.py:64
LoadAe ==
    /\ LoaderAt("load_ae")
    /\ \E ok \in BOOLEAN :
         ld' = LoadOutcome(ld, ok, [ ld EXCEPT !.vae_model = "AutoEncoder" ])
    /\ UNCHANGED << deviceCount, cudnn, gen, bundle, th, count >>

\* nodes.py:67-83
BuildModel ==
    /\ LoaderAt("build_model")
    /\ \E ok \in BOOLEAN :
         ld' = LoadOutcome(ld, ok, [ ld EXCEPT !.model = "Bagel:meta" ])
    /\ UNCHANGED << deviceCount, cudnn, gen, bundle, th, count >>

\* nodes.py:86-87
LoadTokenizer ==
    /\ LoaderAt("tokenizer")
    /\ \E ok \in BOOLEAN :
         ld' = LoadOutcome(ld, ok,
                  [ ld EXCEPT !.tokenizer = "Qwen2Tokenizer+special",
                              !.new_token_ids = "new_token_ids" ])
    /\ UNCHANGED << deviceCount, cudnn, gen, bundle, th, count >>

\* nodes.py:90-91
MakeTransforms ==
    /\ LoaderAt("transforms")
    /\ \E ok \in BOOLEAN :
         ld' = LoadOutcome(ld, ok,
                  [ ld EXCEPT !.vae_transform = "ImageTransform(1024,512,16)",
                              !.vit_transform = "ImageTransform(980,224,14)" ])
    /\ UNCHANGED << deviceCount, cudnn, gen, bundle, th, count >>

\* nodes.py:95-100: the planner returns some plan and the plan is printed.
InferDeviceMap ==
    /\ LoaderAt("infer_device_map")
    /\ \/ \E plan \in Plans(deviceCount) :
            ld' = LoadOutcome(ld, TRUE,
                     [ ld EXCEPT !.device_map = plan, !.printed = plan ])
       \/ ld' = LoadOutcome(ld, FALSE, ld)
    /\ UNCHANGED << deviceCount, cudnn, gen, bundle, th, count >>

\* nodes.py:102-123
PostPassStep ==
    /\ LoaderAt("post_pass")
    /\ ld' = LoadOutcome(ld, TRUE,
                 [ ld EXCEPT !.device_map = PostPass(ld.device_map, deviceCount) ])
    /\ UNCHANGED << deviceCount, cudnn, gen, bundle, th, count >>

\* nodes.py:126-133
LoadCheckpoint ==
    /\ LoaderAt("load_checkpoint")
    /\ \E ok \in BOOLEAN :
         ld' = LoadOutcome(ld, ok, [ ld EXCEPT !.model = "Bagel:dispatched" ])
    /\ UNCHANGED << deviceCount, cudnn, gen, bundle, th, count >>

\* nodes.py:135-136
EvalModel ==
    /\ LoaderAt("eval")
    /\ ld' = LoadOutcome(ld, TRUE, [ ld EXCEPT !.model = "Bagel:eval" ])
    /\ UNCHANGED << deviceCount, cudnn, gen, bundle, th, count >>

\* nodes.py:138: the tuple goes to the host, the frame and its locals end.
LoadReturn ==
    /\ LoaderAt("return")
    /\ bundle' = << ld.model, ld.vae_model, ld.tokenizer,
                    ld.vae_transform, ld.vit_transform, ld.new_token_ids >>
    /\ ld' = LoaderIdle
    /\ UNCHANGED << deviceCount, cudnn, gen, th, count >>

\* The exception reaches the host, which reports it; the call is over.
LoadSurfaceError ==
    /\ ld.status = "raised"
    /\ ld' = LoaderIdle
    /\ UNCHANGED << deviceCount, cudnn, gen, bundle, th, count >>

LoaderNext ==
    \/ LoadCall
    \/ LoadLlmConfig
    \/ LoadVitConfig
    \/ LoadAe
    \/ BuildModel
    \/ LoadTokenizer
    \/ MakeTransforms
    \/ InferDeviceMap
    \/ PostPassStep
    \/ LoadCheckpoint
    \/ EvalModel
    \/ LoadReturn
    \/ LoadSurfaceError

\* ------------------------------------------------------ session actions
\* BagelPrompt.input_text(text): the whole method.
BagelPromptCall(t) ==
    /\ HostIdle
    /\ \E text \in Strings :
         LET kw == [ n \in { "text" } |-> text ] IN
         th' = [ th EXCEPT ![t] =
                   IF Accepts("BagelPrompt", DOMAIN kw)
                   THEN [ FrameIdle EXCEPT !.status = "returned",
                            !.node = "BagelPrompt", !.kw = kw,
                            !.ret = input_text(kw["text"]) ]
                   ELSE [ FrameIdle EXCEPT !.status = "raised",
                            !.node = "BagelPrompt", !.kw = kw ] ]
    /\ UNCHANGED << deviceCount, cudnn, gen, ld, bundle, count >>

\* LoadEditImage.input_image(image_path): the whole method.
LoadEditImageCall(t) ==
    /\ HostIdle
    /\ \E image_path \in Strings :
         LET kw == [ n \in { "image_path" } |-> image_path ] IN
         th' = [ th EXCEPT ![t] =
                   IF Accepts("LoadEditImage", DOMAIN kw)
                   THEN [ FrameIdle EXCEPT !.status = "returned",
                            !.node = "LoadEditImage", !.kw = kw,
                            !.ret = input_image(kw["image_path"]) ]
                   ELSE [ FrameIdle EXCEPT !.status = "raised",
                            !.node = "LoadEditImage", !.kw = kw ] ]
    /\ UNCHANGED << deviceCount, cudnn, gen, ld, bundle, count >>

\* The frame a call of a dispatch method starts with: bound to its
\* arguments at the first statement, or TypeError.
\* gen_at_entry records the generator state the call found (history only).
Enter(node, kw) ==
    IF Accepts(node, DOMAIN kw)
    THEN [ FrameIdle EXCEPT !.status = "running", !.node = node,
                            !.pc = 1, !.kw = kw, !.gen_at_entry = gen ]
    ELSE [ FrameIdle EXCEPT !.status = "raised", !.node = node, !.kw = kw ]

\* A call that binds is one more dispatch call under way.
Entered(node, kw) ==
    IF Accepts(node, DOMAIN kw)
    THEN [ count EXCEPT !.entered = @ + 1 ]
    ELSE count

AnyKw(keys) ==
    { MkKw(keys, bundle, prompt, image, seed, mtt, ci, rt, tt, ratio, samp) :
        prompt \in Strings, image \in Strings, seed \in Seeds,
        mtt \in ThinkTokenInputs, ci \in CfgIntervalInputs,
        rt \in RenormTypes, tt \in TemperatureInputs,
        ratio \in ImageRatios, samp \in SamplingInputs }

\* The host executes a dispatch node: one keyword argument per input the
\* node declares, the handles wired to the loader's outputs.
HostDispatch(t) ==
    /\ HostIdle
    /\ bundle # NoBundle
    /\ count.entered < MaxCalls
    /\ \E node \in DispatchNodes :
         \E kw \in AnyKw(Required(node)) :
            /\ th' = [ th EXCEPT ![t] = Enter(node, kw) ]
            /\ count' = Entered(node, kw)
    /\ UNCHANGED << deviceCount, cudnn, gen, ld, bundle >>

\* A caller that passes the method's own parameters (a script or a test
\* calling the method directly).
DirectDispatch(t) ==
    /\ HostIdle
    /\ bundle # NoBundle
    /\ count.entered < MaxCalls
    /\ \E node \in DispatchNodes :
         \E kw \in AnyKw(Params(node)) :
            /\ th' = [ th EXCEPT ![t] = Enter(node, kw) ]
            /\ count' = Entered(node, kw)
    /\ UNCHANGED << deviceCount, cudnn, gen, ld, bundle >>

At(t, step) ==
    /\ th[t].status = "running"
    /\ th[t].pc \in 1..Len(DispatchSteps)
    /\ DispatchSteps[th[t].pc] = step

Advance(f, step) == [ f EXCEPT !.pc = @ + 1, !.trace = Append(@, step) ]

\* inferencer = InterleaveInferencer(...)
Construct(t) ==
    /\ At(t, "construct")
    /\ th' = [ th EXCEPT ![t] =
                 Advance([ th[t] EXCEPT
                             !.inferencer = InterleaveInferencer(th[t].kw) ],
                         "construct") ]
    /\ count' = [ count EXCEPT !.constructed = @ + 1 ]
    /\ UNCHANGED << deviceCount, cudnn, gen, ld, bundle >>

\* random.seed(seed) ... torch.backends.cudnn.benchmark = False
ReseedStep(t) ==
    /\ At(t, "reseed")
    /\ gen' = Reseed(gen, th[t].kw["seed"], deviceCount)
    /\ cudnn' = SetDeterminism(cudnn)
    /\ th' = [ th EXCEPT ![t] = Advance(th[t], "reseed") ]
    /\ UNCHANGED << deviceCount, ld, bundle, count >>

\* inference_hyper = dict(...)
Assemble(t) ==
    /\ At(t, "assemble")
    /\ th' = [ th EXCEPT ![t] =
                 Advance([ th[t] EXCEPT
                             !.inference_hyper =
                                 inference_hyper(th[t].node, th[t].kw) ],
                         "assemble") ]
    /\ UNCHANGED << deviceCount, cudnn, gen, ld, bundle, count >>

\* output_dict = inferencer(..., **inference_hyper)
Invoke(t) ==
    /\ At(t, "invoke")
    /\ LET call == ModeArgs(th[t].node, th[t].kw) @@ th[t].inference_hyper IN
       th' = [ th EXCEPT ![t] =
                 Advance([ th[t] EXCEPT !.call = call,
                             !.output_dict = InferencerResult(call) ],
                         "invoke") ]
    /\ gen' = InferencerDraws(gen)
    /\ count' = [ count EXCEPT !.invocations = @ + 1 ]
    /\ UNCHANGED << deviceCount, cudnn, ld, bundle >>

\* image = output_dict['image'] ... return (...)
Return(t) ==
    /\ At(t, "return")
    /\ th' = [ th EXCEPT ![t] =
                 [ Advance(th[t], "return") EXCEPT
                     !.status = "returned",
                     !.ret = Extract(th[t].node, th[t].output_dict) ] ]
    /\ count' = [ count EXCEPT !.returned = @ + 1 ]
    /\ UNCHANGED << deviceCount, cudnn, gen, ld, bundle >>

\* The host takes the returned tuple (or reports the error); the frame ends.
HostCollect(t) ==
    /\ th[t].status \in { "returned", "raised" }
    /\ th' = [ th EXCEPT ![t] = FrameIdle ]
    /\ UNCHANGED << deviceCount, cudnn, gen, ld, bundle, count >>

SessionNext ==
    \E t \in Threads :
        \/ BagelPromptCall(t)
        \/ LoadEditImageCall(t)
        \/ HostDispatch(t)
        \/ DirectDispatch(t)
        \/ Construct(t)
        \/ ReseedStep(t)
        \/ Assemble(t)
        \/ Invoke(t)
        \/ Return(t)
        \/ HostCollect(t)

\* --------------------------------------------- unserialized dispatch calls
\* The two call slots a host without serialization would run side by side.
RaceThreads == { 1, 2 }

\* The inputs of concurrent calls: seed and text_temperature vary, the other
\* widgets keep their schema defaults.
RaceKw(keys) ==
    { MkKw(keys, bundle, "a car made of small cars",
           "test images/wo'men #1 (x).jpg", seed, 1000, 4, "global", tt,
           "1:1",
           [ cfg_text_scale |-> 40, cfg_img_scale |-> 20,
             timestep_shift |-> 30, num_timesteps |-> 50,
             cfg_renorm_min |-> 10 ]) :
        seed \in Seeds, tt \in TemperatureInputs }

Running(u) == th[u].status = "running"

\* A dispatch method is called with no regard to calls already running:
\* nothing in nodes.py takes a lock.  overlapped records (history only) that
\* a call has shared some of its lifetime with another running call.
ConcurrentDispatch(t) ==
    /\ t \in RaceThreads
    /\ th[t].status = "idle"
    /\ ld.status = "idle"
    /\ bundle # NoBundle
    /\ count.entered < MaxCalls
    /\ \E node \in DispatchNodes :
         \E kw \in RaceKw(Params(node)) :
            th' = [ u \in Threads |->
                      IF u = t
                      THEN [ Enter(node, kw) EXCEPT
                               !.gen_at_entry = NoDict,
                               !.overlapped =
                                   \E v \in Threads \ { t } : Running(v) ]
                      ELSE IF Running(u)
                           THEN [ th[u] EXCEPT !.overlapped = TRUE ]
                           ELSE th[u] ]
    /\ count' = [ count EXCEPT !.entered = @ + 1 ]
    /\ UNCHANGED << deviceCount, cudnn, gen, ld, bundle >>

ConcurrentNext ==
    \E t \in Threads :
        \/ ConcurrentDispatch(t)
        \/ Construct(t)
        \/ ReseedStep(t)
        \/ Assemble(t)
        \/ Invoke(t)
        \/ Return(t)
        \/ HostCollect(t)

\* ------------------------------------------------------ specifications
InitialGenerators(n) ==
    [ random |-> Unseeded, numpy |-> Unseeded, torch |-> Unseeded,
      cuda |-> [ d \in 0..(n - 1) |-> Unseeded ] ]

\* A fresh process: nothing loaded, no call running.
LoaderInit ==
    /\ deviceCount \in 0..MaxDevices
    /\ cudnn = [ deterministic |-> FALSE, benchmark |-> FALSE ]
    /\ gen = InitialGenerators(deviceCount)
    /\ ld = LoaderIdle
    /\ bundle = NoBundle
    /\ th = [ t \in Threads |-> FrameIdle ]
    /\ count = NoCalls

SpecLoader == LoaderInit /\ [][LoaderNext]_vars

\* The session after load_model has returned its tuple to the host; the
\* host application may have switched the cudnn benchmark heuristic on.
Init ==
    /\ deviceCount \in 0..MaxDevices
    /\ cudnn \in [ deterministic : { FALSE }, benchmark : BOOLEAN ]
    /\ gen = InitialGenerators(deviceCount)
    /\ ld = LoaderIdle
    /\ bundle = LoadedBundle
    /\ th = [ t \in Threads |-> FrameIdle ]
    /\ count = NoCalls

Next == SessionNext

Spec == Init /\ [][Next]_vars

\* The same session when the host does not serialize dispatch calls.
SpecConcurrent == Init /\ [][ConcurrentNext]_vars

\* ------------------------------------------------------------ properties
Did(t, step) == \E i \in 1..Len(th[t].trace) : th[t].trace[i] = step

Invoked(t) == th[t].status # "idle" /\ Did(t, "invoke")

PostPassDone ==
    /\ ld.status = "running"
    /\ ld.pc \in 1..Len(LoadSteps)
    /\ LoadSteps[ld.pc] = "load_checkpoint"

\* C1: a host call that passes one keyword argument per input declared in
\* INPUT_TYPES()["required"] is accepted by the node's FUNCTION method, for
\* every node type (the declared names are the method's parameters).
C1_SchemaCallAccepted ==
    \A t \in Threads :
        (th[t].status # "idle" /\ DOMAIN th[t].kw = Required(th[t].node))
            => th[t].status # "raised"

\* C2: the cfg_interval and cfg_renorm_type the inferencer receives are
\* [0.4, 1.0] and the user's choice (Generation), [0.4, 1.0] and "global"
\* (Think-Generation), [0.0, 1.0] and "text_channel" (Editing and
\* Think-Editing), and neither key (Understanding); the user's cfg_interval
\* input never reaches the call.
C2_CfgTable ==
    \A t \in Threads :
        Invoked(t) =>
            LET f == th[t] IN
            CASE f.node = "ImageGeneration" ->
                    /\ f.call["cfg_interval"] = << 4, 10 >>
                    /\ f.call["cfg_renorm_type"] = f.kw["cfg_renorm_type"]
              [] f.node = "ImageThinkGeneration" ->
                    /\ f.call["cfg_interval"] = << 4, 10 >>
                    /\ f.call["cfg_renorm_type"] = "global"
              [] f.node \in { "ImageEditing", "ImageThinkEditing" } ->
                    /\ f.call["cfg_interval"] = << 0, 10 >>
                    /\ f.call["cfg_renorm_type"] = "text_channel"
              [] f.node = "ImageUnderstanding" ->
                    /\ "cfg_interval" \notin DOMAIN f.call
                    /\ "cfg_renorm_type" \notin DOMAIN f.call

C2_Witness ==
    \E t \in Threads :
        /\ Invoked(t)
        /\ th[t].node = "ImageThinkGeneration"
        /\ th[t].kw["cfg_interval"] = 7
        /\ th[t].kw["cfg_renorm_type"] = "local"

ModeKeys == { "text", "image", "think", "understanding_output" }

\* C3: each variant calls the inferencer with the mode arguments of its
\* table row (text only / text, think / image, text / image, text, think /
\* image, text, understanding_output) and returns the row's result fields
\* (image / image, text / image / image, text / text); the returned tuple is
\* as long as the node's RETURN_TYPES.
C3_ModeAndOutputs ==
    \A t \in Threads :
        LET f == th[t]
            mode == DOMAIN f.call \cap ModeKeys
        IN
        /\ Invoked(t) =>
            /\ f.call["text"] = f.kw["prompt"]
            /\ CASE f.node = "ImageGeneration" -> mode = { "text" }
                 [] f.node = "ImageThinkGeneration" ->
                        mode = { "text", "think" } /\ f.call["think"] = TRUE
                 [] f.node = "ImageEditing" ->
                        mode = { "image", "text" }
                        /\ f.call["image"] = f.kw["image"]
                 [] f.node = "ImageThinkEditing" ->
                        mode = { "image", "text", "think" }
                        /\ f.call["image"] = f.kw["image"]
                        /\ f.call["think"] = TRUE
                 [] f.node = "ImageUnderstanding" ->
                        mode = { "image", "text", "understanding_output" }
                        /\ f.call["image"] = f.kw["image"]
                        /\ f.call["understanding_output"] = TRUE
        /\ (f.status = "returned" /\ f.node \in DispatchNodes) =>
            /\ Len(f.ret) = Len(RETURN_TYPES(f.node))
            /\ f.ret =
                 CASE f.node \in { "ImageGeneration", "ImageEditing" } ->
                        << f.output_dict["image"] >>
                   [] f.node \in { "ImageThinkGeneration", "ImageThinkEditing" } ->
                        << f.output_dict["image"], f.output_dict["text"] >>
                   [] f.node = "ImageUnderstanding" ->
                        << f.output_dict["text"] >>

C3_Witness ==
    \E t \in Threads :
        /\ th[t].status = "returned"
        /\ th[t].node = "ImageThinkEditing"
        /\ Len(th[t].ret) = 2

First == same_device_modules[1]

\* C5: with exactly one device, after the post-pass every co-location name
\* is a key of the device map and maps to the same device identifier as the
\* first name of the group.
C5_SingleDeviceColocated ==
    (PostPassDone /\ deviceCount = 1) =>
        \A k \in SameDeviceSet :
            /\ k \in DOMAIN ld.device_map
            /\ ld.device_map[k] = ld.device_map[First]

\* C6: with more than one device, after the post-pass every co-location name
\* maps to one device identifier, the one the plan gave the first name; no
\* member stays elsewhere and none is given a null device, also when the
\* first name is not a key of the plan.
C6_MultiDeviceColocated ==
    (PostPassDone /\ deviceCount > 1) =>
        \A k \in SameDeviceSet :
            /\ k \in DOMAIN ld.device_map => ld.device_map[k] # None
            /\ First \in DOMAIN ld.printed =>
                 /\ k \in DOMAIN ld.device_map
                 /\ ld.device_map[k] = ld.printed[First]
            /\ \A j \in SameDeviceSet :
                 (j \in DOMAIN ld.device_map /\ k \in DOMAIN ld.device_map)
                     => ld.device_map[j] = ld.device_map[k]

\* Every statement before the current one has completed: its locals are set.
C7_NoStatementSkipped ==
    ld.status = "running" =>
        /\ ld.pc > 1 => ld.llm_config # Unset
        /\ ld.pc > 2 => ld.vit_config # Unset
        /\ ld.pc > 3 => ld.vae_model # Unset
        /\ ld.pc > 4 => ld.model # Unset
        /\ ld.pc > 5 => (ld.tokenizer # Unset /\ ld.new_token_ids # Unset)
        /\ ld.pc > 6 => (ld.vae_transform # Unset /\ ld.vit_transform # Unset)
        /\ ld.pc > 9 => ld.model \in { "Bagel:dispatched", "Bagel:eval" }

C7_Inv ==
    /\ bundle \in { NoBundle, LoadedBundle }
    /\ ld.status = "raised" => bundle = NoBundle
    /\ C7_NoStatementSkipped

C7_Step ==
    /\ ld.status = "raised" => (ld'.status = "idle" /\ bundle' = bundle)
    /\ bundle' # bundle =>
         (ld.status = "running" /\ ld.pc = Len(LoadSteps))

\* C7: load_model either runs every statement and returns the full
\* six-element tuple or raises and returns nothing: a failing statement ends
\* the call at once (no later statement runs, nothing is retried) and no
\* tuple with a missing or unloaded handle is ever returned.
C7_LoadAllOrNothing == []C7_Inv /\ [][C7_Step]_vars

C7_Witness ==
    /\ ld.status = "raised"
    /\ ld.pc \in 1..Len(LoadSteps)
    /\ LoadSteps[ld.pc] = "load_checkpoint"
    /\ bundle = NoBundle

CaptureParam(node) == IF node = "BagelPrompt" THEN "text" ELSE "image_path"

\* C8: BagelPrompt.input_text and LoadEditImage.input_image return a
\* one-element tuple holding the input string unchanged, for every string,
\* and change nothing else.
C8_CaptureIdentity ==
    [][ \A t \in Threads :
          (th[t].status = "idle" /\ th'[t].node \in CaptureNodes) =>
             /\ th'[t].status = "returned"
             /\ Len(th'[t].ret) = 1
             /\ th'[t].ret[1] = th'[t].kw[CaptureParam(th'[t].node)]
             /\ UNCHANGED << deviceCount, cudnn, gen, ld, bundle, count >>
             /\ \A u \in Threads \ { t } : th'[u] = th[u] ]_vars

C8_Witness ==
    \E t \in Threads :
        /\ th[t].status = "returned"
        /\ th[t].node = "BagelPrompt"
        /\ th[t].kw["text"] = ""
        /\ th[t].ret = << "" >>

\* C9 as stated: reseed, then assemble, then construct, then invoke.
C9_ReseedBeforeConstruct ==
    \A t \in Threads :
        /\ Did(t, "construct") => Did(t, "reseed")
        /\ Invoked(t) =>
             SubSeq(th[t].trace, 1, 4) =
                 << "reseed", "assemble", "construct", "invoke" >>

SourceOrder == << "construct", "reseed", "assemble", "invoke", "return" >>

\* C9 amended: in every dispatch variant the inferencer object is
\* constructed first, then the generators are reseeded and the determinism
\* flags set, then the hyperparameter dictionary is assembled, then the
\* inferencer is invoked; reseeding happens after the construction and
\* before the invocation.
C9_ConstructReseedAssembleInvoke ==
    \A t \in Threads :
        LET f == th[t] IN
        /\ f.trace = SubSeq(SourceOrder, 1, Len(f.trace))
        /\ (f.status = "running" /\ Did(t, "reseed")) =>
             /\ f.inferencer # NoDict
        /\ (Did(t, "reseed") /\ ~Did(t, "assemble")) =>
             (f.inference_hyper = NoDict /\ f.call = NoDict)
        /\ (Did(t, "assemble") /\ ~Did(t, "invoke")) =>
             (f.inference_hyper # NoDict /\ f.call = NoDict)

C9_Witness ==
    \E t \in Threads :
        /\ th[t].status = "running"
        /\ th[t].trace = << "construct", "reseed" >>
        /\ th[t].inferencer # NoDict
        /\ gen.torch = Seeded(th[t].kw["seed"])

\* C10: in Think-Generation, Think-Editing and Understanding the
\* max_think_token_n the inferencer receives is the caller's value.
C10_ThinkTokensPassed ==
    \A t \in Threads :
        (Invoked(t) /\ th[t].node \in { "ImageThinkGeneration",
                                        "ImageThinkEditing",
                                        "ImageUnderstanding" })
            => th[t].call["max_think_token_n"] = th[t].kw["max_think_token_n"]

OwnSeedHeld(t) ==
    LET s == th[t].kw["seed"] IN
    /\ gen.random = Seeded(s)
    /\ gen.numpy = Seeded(s)
    /\ gen.torch = Seeded(s)
    /\ \A d \in DOMAIN gen.cuda : gen.cuda[d] = Seeded(s)

\* C11: the generators are one process-wide variable every dispatch call
\* writes and the inferencer reads, with no lock.  A call that never shared
\* its lifetime with another running call (the caller serialized it) finds
\* its own seed in every generator when it invokes the inferencer; for
\* interleaved calls with different seeds a state is reachable in which a
\* call invokes while the generators hold the other call's seed (the
\* witness).
C11_SerializedCallsSeeTheirSeed ==
    \A t \in Threads :
        (At(t, "invoke") /\ ~th[t].overlapped) => OwnSeedHeld(t)

C11_Witness ==
    \E t \in Threads, u \in Threads :
        /\ t # u
        /\ At(t, "invoke")
        /\ Running(u)
        /\ Did(u, "reseed")
        /\ th[t].kw["seed"] # th[u].kw["seed"]
        /\ gen.torch = Seeded(th[u].kw["seed"])
        /\ ~OwnSeedHeld(t)

\* C12 as stated: the names the post-pass forces onto one device are eight
\* (with one device every group name becomes a key of the device map).
C12_EightNames ==
    (PostPassDone /\ deviceCount = 1) =>
        Cardinality(DOMAIN ld.device_map) = 8

GroupInSource ==
    { "language_model.model.embed_tokens", "time_embedder",
      "latent_pos_embed", "vae2llm", "llm2vae", "connector",
      "vit_pos_embed" }

\* C12 amended: the co-location group consists of exactly seven module
\* names, and the same group is used in both branches: with one device the
\* keys of the device map after the post-pass are these seven, each on the
\* first name's planned device or "cuda:0"; otherwise exactly the planned
\* keys among the seven are rewritten to what the plan holds for the first
\* name.
C12_SevenNamesBothBranches ==
    PostPassDone =>
        /\ Cardinality(GroupInSource) = 7
        /\ deviceCount = 1 =>
             /\ DOMAIN ld.device_map = GroupInSource
             /\ \A k \in GroupInSource :
                  ld.device_map[k] =
                     IF k \in DOMAIN ld.printed
                     THEN DictGet(ld.printed,
                                  "language_model.model.embed_tokens", "cuda:0")
                     ELSE "cuda:0"
        /\ deviceCount # 1 =>
             /\ DOMAIN ld.device_map = DOMAIN ld.printed
             /\ \A k \in GroupInSource \cap DOMAIN ld.printed :
                  ld.device_map[k] =
                     DictGet(ld.printed,
                             "language_model.model.embed_tokens", None)

C12_Witness ==
    /\ PostPassDone
    /\ deviceCount > 1
    /\ DOMAIN ld.printed = GroupInSource
    /\ ld.printed["vit_pos_embed"] # ld.printed[First]
    /\ \A k \in GroupInSource : ld.device_map[k] = ld.printed[First]

SameButTemperature(kw1, kw2) ==
    /\ DOMAIN kw1 = DOMAIN kw2
    /\ \A n \in DOMAIN kw1 \ { "text_temperature" } : kw1[n] = kw2[n]

\* C13: no variant passes text_temperature to the inferencer; two calls of
\* one variant whose inputs differ only in text_temperature make the same
\* inferencer call; the think and understanding variants pass
\* do_sample=False.
C13_TemperatureNotPassed ==
    /\ \A t \in Threads :
          Invoked(t) =>
             /\ "text_temperature" \notin DOMAIN th[t].call
             /\ th[t].node \in { "ImageThinkGeneration", "ImageThinkEditing",
                                 "ImageUnderstanding" }
                   => th[t].call["do_sample"] = FALSE
    /\ \A t \in Threads, u \in Threads :
          (/\ Invoked(t)
           /\ Invoked(u)
           /\ th[t].node = th[u].node
           /\ SameButTemperature(th[t].kw, th[u].kw))
             => th[t].call = th[u].call

C13_Witness ==
    \E t \in Threads, u \in Threads :
        /\ Invoked(t)
        /\ Invoked(u)
        /\ th[t].node = "ImageThinkGeneration"
        /\ th[u].node = "ImageThinkGeneration"
        /\ SameButTemperature(th[t].kw, th[u].kw)
        /\ th[t].kw["text_temperature"] # th[u].kw["text_temperature"]
        /\ th[t].call = th[u].call

InFlightPast(step) ==
    Cardinality({ t \in Threads : Running(t) /\ Did(t, step) })

\* C14: every dispatch call constructs one inferencer object of its own and
\* invokes it once; nothing is carried from one call to the next, so after
\* any sequence of calls the inferencer invocations number the calls that
\* reached the invoke step (those returned plus those under way past it),
\* and likewise the constructions.
C14_OneInferencerOneInvocation ==
    /\ count.invocations = count.returned + InFlightPast("invoke")
    /\ count.constructed = count.returned + InFlightPast("construct")
    /\ count.invocations <= count.constructed
    /\ count.constructed <= count.entered
    /\ \A t \in Threads :
          /\ (Running(t) /\ th[t].trace = << >>) =>
                /\ th[t].inferencer = NoDict
                /\ th[t].call = NoDict
                /\ th[t].output_dict = NoDict
          /\ th[t].status = "returned" /\ th[t].node \in DispatchNodes =>
                /\ Cardinality({ i \in 1..Len(th[t].trace) :
                                   th[t].trace[i] = "construct" }) = 1
                /\ Cardinality({ i \in 1..Len(th[t].trace) :
                                   th[t].trace[i] = "invoke" }) = 1

C14_Witness ==
    /\ count.entered = 2
    /\ count.constructed = 2
    /\ count.invocations = 2
    /\ count.returned = 2

SeedsOf(g) ==
    [ random |-> g.random.seed, numpy |-> g.numpy.seed,
      torch |-> g.torch.seed,
      cuda |-> [ d \in DOMAIN g.cuda |-> g.cuda[d].seed ] ]

C15_Inv ==
    /\ bundle = LoadedBundle
    /\ \A t \in Threads :
          (th[t].status # "idle" /\ Did(t, "construct")) =>
             /\ DOMAIN th[t].inferencer = HandleSet
             /\ \A i \in 1..Len(HandleNames) :
                   th[t].inferencer[HandleNames[i]] = bundle[i]

C15_Step ==
    /\ bundle' = bundle
    /\ ld' = ld
    /\ deviceCount' = deviceCount
    /\ (SeedsOf(gen') # SeedsOf(gen) \/ cudnn' # cudnn) =>
          \E t \in Threads :
             /\ At(t, "reseed")
             /\ th'[t].trace = Append(th[t].trace, "reseed")
             /\ SeedsOf(gen') = SeedsOf(Reseed(gen, th[t].kw["seed"], deviceCount))
             /\ cudnn' = [ deterministic |-> TRUE, benchmark |-> FALSE ]

\* C15: a dispatch call leaves the loader's tuple unchanged: the six handles
\* it gives the inferencer constructor are the six of the tuple, each under
\* its own name; the only process-wide state a dispatch call itself writes
\* is the generator seeds and the two cudnn flags (in its reseed statements);
\* after any sequence of calls the tuple is the one load_model returned.
C15_BundleUntouched == []C15_Inv /\ [][C15_Step]_vars

C15_Witness ==
    /\ count.returned = 2
    /\ bundle = LoadedBundle
    /\ \E t \in Threads :
          /\ th[t].status = "returned"
          /\ th[t].node = "ImageEditing"
          /\ th[t].inferencer["vae_transform"] = bundle[4]
          /\ th[t].inferencer["vit_transform"] = bundle[5]

====
